---- MODULE Spec2Model ----
(***************************************************************************)
(* Model of scripts/analyze-password-hashes.py: the NickServ section       *)
(* extractor (parse_saxdb_nickserv) and the password hash classifier       *)
(* (detect_algorithm, parse_pbkdf2_iterations, parse_bcrypt_cost and the   *)
(* statistics loop of generate_report).                                    *)
(*                                                                         *)
(* A Python str is a sequence of one-character strings.  Positions are     *)
(* kept 0-based, as in the source; At and Slice do the index shift.        *)
(***************************************************************************)
EXTENDS Integers, Sequences, FiniteSets, TLC

VARIABLES
    content,          \* parse_saxdb_nickserv: the dump text (parameter)
    entries,          \* the entry forms the dump under test was rendered from
    layout,           \* how the dump under test wraps those entries
    pc,               \* position in parse_saxdb_nickserv
    ns_start, brace_start, depth, pos, ns_content,
    mpos,             \* where account_pattern.finditer searches next
    account_name, properties_str, props,
    accounts,         \* the mapping being returned
    hash_str,         \* generate_report: passwd of the account at hand
    hpc,              \* position in the body of generate_report's loop
    algo, iters, cost,
    iterations_stats, bcrypt_costs

vars == <<content, entries, layout, pc, ns_start, brace_start, depth, pos,
          ns_content, mpos, account_name, properties_str, props, accounts,
          hash_str, hpc, algo, iters, cost, iterations_stats, bcrypt_costs>>

extractVars == <<content, entries, layout, pc, ns_start, brace_start, depth,
                 pos, ns_content, mpos, account_name, properties_str, props,
                 accounts>>

classifyVars == <<hash_str, hpc, algo, iters, cost, iterations_stats,
                  bcrypt_costs>>

-----------------------------------------------------------------------------
(* Python str primitives *)

QUOTE == "\""

At(s, i) == s[i + 1]

\* s[a:b]: a negative index counts from the end, both are clamped to 0..len
SliceIndex(i, n) ==
    IF i < 0 THEN (IF n + i < 0 THEN 0 ELSE n + i)
    ELSE IF i > n THEN n ELSE i

Slice(s, a, b) ==
    LET lo == SliceIndex(a, Len(s))
        hi == SliceIndex(b, Len(s))
    IN  IF lo >= hi THEN <<>> ELSE SubSeq(s, lo + 1, hi)

\* s.find(sub, start): lowest index >= start where sub occurs, -1 if none
RECURSIVE Find(_, _, _)
Find(s, sub, start) ==
    IF start + Len(sub) > Len(s) THEN -1
    ELSE IF SubSeq(s, start + 1, start + Len(sub)) = sub THEN start
    ELSE Find(s, sub, start + 1)

StartsWith(s, p) == Len(s) >= Len(p) /\ SubSeq(s, 1, Len(p)) = p

\* regex \s on the characters a dump is written with
IsSpace(c) == c \in {" ", "\t", "\n", "\r"}

\* lowest index >= from holding one of chars, -1 if none: where a negated
\* class run such as [^"]+ or [^}]+ has to stop
RECURSIVE NextIndexOf(_, _, _)
NextIndexOf(s, chars, from) ==
    IF from >= Len(s) THEN -1
    ELSE IF At(s, from) \in chars THEN from
    ELSE NextIndexOf(s, chars, from + 1)

\* index just past the greedy run \s* that starts at from
RECURSIVE SkipSpace(_, _)
SkipSpace(s, from) ==
    IF from >= Len(s) \/ ~IsSpace(At(s, from)) THEN from
    ELSE SkipSpace(s, from + 1)

-----------------------------------------------------------------------------
(* parse_saxdb_nickserv: constants and regular expressions *)

SectionName == <<QUOTE, "N", "i", "c", "k", "S", "e", "r", "v", QUOTE>>

NonAccountNames ==
    { <<"v","e","r","s","i","o","n","_","c","o","n","t","r","o","l">>,
      <<"n","o","t","e","_","t","y","p","e","s">>,
      <<"d","n","r">>,
      <<"c","h","a","n","n","e","l","s">>,
      <<"b","o","t","s">> }

IsExcluded(name) == name \in NonAccountNames

\* account_pattern  "([^"]+)"\s*\{\s*([^}]+)\s*\};  tried at index i.
\* Every piece is forced: [^"]+ runs to the next quote, \s* to the next
\* non-space, and neither \s nor [^}] can cross a closing brace, so the \}
\* of the pattern is the first closing brace after the opening one.  Group 2
\* starts after the leading spaces; when the block is spaces only the
\* leading \s* gives one back to [^}]+.  <<>> stands for "no match".
AccountMatchAt(s, i) ==
    IF i >= Len(s) \/ At(s, i) # QUOTE THEN <<>> ELSE
    LET q == NextIndexOf(s, {QUOTE}, i + 1) IN
    IF q = -1 \/ q = i + 1 THEN <<>> ELSE
    LET b == SkipSpace(s, q + 1) IN
    IF b >= Len(s) \/ At(s, b) # "{" THEN <<>> ELSE
    LET r == NextIndexOf(s, {"}"}, b + 1)
        w == SkipSpace(s, b + 1)
    IN
    IF r = -1 \/ r = b + 1 \/ r + 1 >= Len(s) \/ At(s, r + 1) # ";"
    THEN <<>>
    ELSE << [name  |-> Slice(s, i + 1, q),
             block |-> Slice(s, (IF w < r THEN w ELSE r - 1), r),
             end   |-> r + 2] >>

\* one step of account_pattern.finditer: the leftmost match at or after from
RECURSIVE AccountSearch(_, _)
AccountSearch(s, from) ==
    IF from >= Len(s) THEN <<>>
    ELSE IF AccountMatchAt(s, from) # <<>> THEN AccountMatchAt(s, from)
    ELSE AccountSearch(s, from + 1)

\* what  ;?\s*  consumes after a property value ending just before j
PropTail(s, j) ==
    SkipSpace(s, IF j < Len(s) /\ At(s, j) = ";" THEN j + 1 ELSE j)

\* prop_pattern  "([^"]+)"\s+(?:"([^"]*)"|(\([^)]*\)));?\s*  tried at i.
\* value is group 2 for a quoted scalar, else group 3, the list with its
\* parentheses.
PropMatchAt(s, i) ==
    IF i >= Len(s) \/ At(s, i) # QUOTE THEN <<>> ELSE
    LET q == NextIndexOf(s, {QUOTE}, i + 1) IN
    IF q = -1 \/ q = i + 1 THEN <<>> ELSE
    LET v == SkipSpace(s, q + 1) IN
    IF v = q + 1 \/ v >= Len(s) THEN <<>> ELSE
    IF At(s, v) = QUOTE THEN
        LET e == NextIndexOf(s, {QUOTE}, v + 1) IN
        IF e = -1 THEN <<>>
        ELSE << [key   |-> Slice(s, i + 1, q),
                 value |-> Slice(s, v + 1, e),
                 end   |-> PropTail(s, e + 1)] >>
    ELSE IF At(s, v) = "(" THEN
        LET e == NextIndexOf(s, {")"}, v + 1) IN
        IF e = -1 THEN <<>>
        ELSE << [key   |-> Slice(s, i + 1, q),
                 value |-> Slice(s, v, e + 1),
                 end   |-> PropTail(s, e + 1)] >>
    ELSE <<>>

\* one step of prop_pattern.finditer
RECURSIVE PropSearch(_, _)
PropSearch(s, from) ==
    IF from >= Len(s) THEN <<>>
    ELSE IF PropMatchAt(s, from) # <<>> THEN PropMatchAt(s, from)
    ELSE PropSearch(s, from + 1)

\* prop_pattern.finditer(properties_str): the matches, in text order
RECURSIVE PropMatches(_, _)
PropMatches(s, from) ==
    LET m == PropSearch(s, from)
    IN  IF m = <<>> THEN <<>> ELSE <<m[1]>> \o PropMatches(s, m[1].end)

\* a plausible slip: keep the value already stored for the key
StorePropKeepFirst(d, key, value) ==
    [k \in DOMAIN d \cup {key} |-> IF k \in DOMAIN d THEN d[k] ELSE value]

\* props[key] = value
StoreProp(d, key, value) ==
    [k \in DOMAIN d \cup {key} |-> IF k = key THEN value ELSE d[k]]

\* accounts[account_name] = props
StoreAccount(d, name, p) ==
    [k \in DOMAIN d \cup {name} |-> IF k = name THEN p ELSE d[k]]

EmptyDict == [k \in {} |-> <<>>]

\* the loop over prop_pattern.finditer, started from props = {}
RECURSIVE AssignAll(_, _)
AssignAll(d, ms) ==
    IF ms = <<>> THEN d
    ELSE AssignAll(StoreProp(d, ms[1].key, ms[1].value), Tail(ms))

ParseProps(s) == AssignAll(EmptyDict, PropMatches(s, 0))

\* a plausible slip: every candidate counts as having properties
TruthyAlways(d) == TRUE

\* "if props:"  -  a dict is true when it has a key
Truthy(d) == DOMAIN d # {}

-----------------------------------------------------------------------------
(* The dumps the extractor is run on: a section of at most MaxEntries      *)
(* entries, each rendered from one of the entry forms below, wrapped in    *)
(* one of the layouts.                                                     *)

MaxEntries == 2

Quoted(n) == <<QUOTE>> \o n \o <<QUOTE>>

ScalarText(k, v) == Quoted(k) \o <<" ">> \o Quoted(v) \o <<";">>

ListText(k, body) == Quoted(k) \o <<" ", "(">> \o body \o <<")", ";">>

RecordText(name, block) == Quoted(name) \o <<"{">> \o block \o <<"}", ";">>

Pair(text) == [kind |-> "pair", text |-> text]
SubRecord(text) == [kind |-> "sub", text |-> text]
Blank == [kind |-> "blank", text |-> <<" ">>]

EntryForms ==
    << \* "a"{"k" "v";};
       [name |-> <<"a">>,
        items |-> << Pair(ScalarText(<<"k">>, <<"v">>)) >>],
       \* "b"{"k" "v";"k" "w";};            the same key twice
       [name |-> <<"b">>,
        items |-> << Pair(ScalarText(<<"k">>, <<"v">>)),
                     Pair(ScalarText(<<"k">>, <<"w">>)) >>],
       \* "dnr"{"k" "v";};                  a structural, non-account entry
       [name |-> <<"d", "n", "r">>,
        items |-> << Pair(ScalarText(<<"k">>, <<"v">>)) >>],
       \* "a"{"s"{};"k" "w";};              an empty sub-record first
       [name |-> <<"a">>,
        items |-> << SubRecord(RecordText(<<"s">>, <<>>)),
                     Pair(ScalarText(<<"k">>, <<"w">>)) >>],
       \* "b"{"s"{"x" "y";};"k" "v";};      a sub-record first
       [name |-> <<"b">>,
        items |-> << SubRecord(RecordText(<<"s">>,
                                          ScalarText(<<"x">>, <<"y">>))),
                     Pair(ScalarText(<<"k">>, <<"v">>)) >>],
       \* "c"{ };                           no property at all
       [name |-> <<"c">>,
        items |-> << Blank >>],
       \* "a"{"m" (x);};                    a list value
       [name |-> <<"a">>,
        items |-> << Pair(ListText(<<"m">>, <<"x">>)) >>],
       \* "c"{"k" "v";"s"{"x" "y";};};      a sub-record last
       [name |-> <<"c">>,
        items |-> << Pair(ScalarText(<<"k">>, <<"v">>)),
                     SubRecord(RecordText(<<"s">>,
                                          ScalarText(<<"x">>, <<"y">>))) >>]
    >>

RECURSIVE ItemsText(_)
ItemsText(items) ==
    IF items = <<>> THEN <<>> ELSE items[1].text \o ItemsText(Tail(items))

EntryText(f) == RecordText(f.name, ItemsText(f.items))

RECURSIVE BodyText(_)
BodyText(es) ==
    IF es = <<>> THEN <<>>
    ELSE EntryText(EntryForms[es[1]]) \o BodyText(Tail(es))

HasPair(f) == \E i \in DOMAIN f.items : f.items[i].kind = "pair"
HasSubRecord(f) == \E i \in DOMAIN f.items : f.items[i].kind = "sub"

\* another section of the dump, with an entry of its own:  "C"{"z"{"k" "v";};};
OtherSection ==
    RecordText(<<"C">>, RecordText(<<"z">>, ScalarText(<<"k">>, <<"v">>)))

Layouts == {"closed", "prefixed", "trailing", "open", "nosection", "nobrace"}

Terminated == {"closed", "prefixed", "trailing"}

Render(l, es) ==
    CASE l = "closed"    -> SectionName \o <<"{">> \o BodyText(es) \o <<"}", ";">>
      [] l = "prefixed"  -> OtherSection \o SectionName \o <<"{">>
                                \o BodyText(es) \o <<"}", ";">>
      [] l = "trailing"  -> SectionName \o <<"{">> \o BodyText(es)
                                \o <<"}", ";">> \o OtherSection
      [] l = "open"      -> SectionName \o <<"{">> \o BodyText(es)
      [] l = "nosection" -> BodyText(es)
      [] l = "nobrace"   -> OtherSection \o SectionName \o <<";">>

EntryLists ==
    UNION {[1..n -> DOMAIN EntryForms] : n \in 0..MaxEntries}

ClassifyIdle ==
    /\ hash_str = <<>>
    /\ hpc = "idle"
    /\ algo = "" /\ iters = <<>> /\ cost = <<>>
    /\ iterations_stats = EmptyDict /\ bcrypt_costs = <<>>

Init ==
    /\ layout \in Layouts
    /\ entries \in EntryLists
    /\ layout = "nobrace" => entries = <<>>
    /\ content = Render(layout, entries)
    /\ pc = "start"
    /\ ns_start = -1 /\ brace_start = -1
    /\ depth = 0 /\ pos = 0
    /\ ns_content = <<>> /\ mpos = 0
    /\ account_name = <<>> /\ properties_str = <<>>
    /\ props = EmptyDict
    /\ accounts = EmptyDict
    /\ ClassifyIdle

-----------------------------------------------------------------------------
(* parse_saxdb_nickserv, one action per step *)

\* ns_start == -1: return accounts
SectionAbsent ==
    /\ pc = "start"
    /\ Find(content, SectionName, 0) = -1
    /\ ns_start' = -1
    /\ pc' = "done"
    /\ UNCHANGED <<content, entries, layout, brace_start, depth, pos,
                   ns_content, mpos, account_name, properties_str, props,
                   accounts>>
    /\ UNCHANGED classifyVars

SectionFound ==
    /\ pc = "start"
    /\ Find(content, SectionName, 0) # -1
    /\ ns_start' = Find(content, SectionName, 0)
    /\ pc' = "brace"
    /\ UNCHANGED <<content, entries, layout, brace_start, depth, pos,
                   ns_content, mpos, account_name, properties_str, props,
                   accounts>>
    /\ UNCHANGED classifyVars

\* a plausible slip: the brace is looked for from the top of the dump
BraceSearchFromTop(s, start) == Find(s, <<"{">>, 0)

\* content.find('{', ns_start)
BraceSearch(s, start) == Find(s, <<"{">>, start)

\* brace_start == -1: return accounts
BraceAbsent ==
    /\ pc = "brace"
    /\ BraceSearch(content, ns_start) = -1
    /\ brace_start' = -1
    /\ pc' = "done"
    /\ UNCHANGED <<content, entries, layout, ns_start, depth, pos,
                   ns_content, mpos, account_name, properties_str, props,
                   accounts>>
    /\ UNCHANGED classifyVars

BraceFound ==
    /\ pc = "brace"
    /\ BraceSearch(content, ns_start) # -1
    /\ brace_start' = BraceSearch(content, ns_start)
    /\ depth' = 1
    /\ pos' = brace_start' + 1
    /\ pc' = "scan"
    /\ UNCHANGED <<content, entries, layout, ns_start, ns_content, mpos,
                   account_name, properties_str, props, accounts>>
    /\ UNCHANGED classifyVars

\* the condition of the while loop
ScanContinues(s, p, d) == p < Len(s) /\ d > 0

\* a plausible slip: "find the next closing brace", nesting not counted
DepthAfterNaive(d, c) == IF c = "}" THEN d - 1 ELSE d

\* the body of the while loop: +1 on an opening brace, -1 on a closing one
DepthAfter(d, c) ==
    IF c = "{" THEN d + 1
    ELSE IF c = "}" THEN d - 1
    ELSE d

\* one iteration of the while loop
ScanStep ==
    /\ pc = "scan"
    /\ ScanContinues(content, pos, depth)
    /\ depth' = DepthAfter(depth, At(content, pos))
    /\ pos' = pos + 1
    /\ UNCHANGED <<content, entries, layout, pc, ns_start, brace_start,
                   ns_content, mpos, account_name, properties_str, props,
                   accounts>>
    /\ UNCHANGED classifyVars

\* ns_content = content[brace_start + 1:pos - 1]
SectionBody(s, b, p) == Slice(s, b + 1, p - 1)

\* the loop ends; the section body is cut out
ScanExit ==
    /\ pc = "scan"
    /\ ~ScanContinues(content, pos, depth)
    /\ ns_content' = SectionBody(content, brace_start, pos)
    /\ mpos' = 0
    /\ pc' = "match"
    /\ UNCHANGED <<content, entries, layout, ns_start, brace_start, depth,
                   pos, account_name, properties_str, props, accounts>>
    /\ UNCHANGED classifyVars

\* finditer yields a match whose name is a structural marker: continue
AccountSkip ==
    /\ pc = "match"
    /\ LET m == AccountSearch(ns_content, mpos) IN
        /\ m # <<>>
        /\ IsExcluded(m[1].name)
        /\ account_name' = m[1].name
        /\ properties_str' = m[1].block
        /\ mpos' = m[1].end
    /\ UNCHANGED <<content, entries, layout, pc, ns_start, brace_start,
                   depth, pos, ns_content, props, accounts>>
    /\ UNCHANGED classifyVars

\* finditer yields an account whose properties parse to a non-empty dict
AccountKeep ==
    /\ pc = "match"
    /\ LET m == AccountSearch(ns_content, mpos) IN
        /\ m # <<>>
        /\ ~IsExcluded(m[1].name)
        /\ Truthy(ParseProps(m[1].block))
        /\ account_name' = m[1].name
        /\ properties_str' = m[1].block
        /\ props' = ParseProps(m[1].block)
        /\ accounts' = StoreAccount(accounts, m[1].name, props')
        /\ mpos' = m[1].end
    /\ UNCHANGED <<content, entries, layout, pc, ns_start, brace_start,
                   depth, pos, ns_content>>
    /\ UNCHANGED classifyVars

\* finditer yields a candidate with no property: nothing is stored
AccountDrop ==
    /\ pc = "match"
    /\ LET m == AccountSearch(ns_content, mpos) IN
        /\ m # <<>>
        /\ ~IsExcluded(m[1].name)
        /\ ~Truthy(ParseProps(m[1].block))
        /\ account_name' = m[1].name
        /\ properties_str' = m[1].block
        /\ props' = ParseProps(m[1].block)
        /\ mpos' = m[1].end
    /\ UNCHANGED <<content, entries, layout, pc, ns_start, brace_start,
                   depth, pos, ns_content, accounts>>
    /\ UNCHANGED classifyVars

\* finditer is exhausted: return accounts
ReturnAccounts ==
    /\ pc = "match"
    /\ AccountSearch(ns_content, mpos) = <<>>
    /\ pc' = "done"
    /\ UNCHANGED <<content, entries, layout, ns_start, brace_start, depth,
                   pos, ns_content, mpos, account_name, properties_str,
                   props, accounts>>
    /\ UNCHANGED classifyVars

Next ==
    \/ SectionAbsent
    \/ SectionFound
    \/ BraceAbsent
    \/ BraceFound
    \/ ScanStep
    \/ ScanExit
    \/ AccountSkip
    \/ AccountKeep
    \/ AccountDrop
    \/ ReturnAccounts

Spec == Init /\ [][Next]_vars

-----------------------------------------------------------------------------
(* The hash classifier *)

\* the literal '0123456789abcdefABCDEF' of detect_algorithm
HexChars ==
    {"0", "1", "2", "3", "4", "5", "6", "7", "8", "9",
     "a", "b", "c", "d", "e", "f", "A", "B", "C", "D", "E", "F"}

\* regex \d on ASCII text
DigitChars == {"0", "1", "2", "3", "4", "5", "6", "7", "8", "9"}

DigitValue(c) ==
    CASE c = "0" -> 0 [] c = "1" -> 1 [] c = "2" -> 2 [] c = "3" -> 3
      [] c = "4" -> 4 [] c = "5" -> 5 [] c = "6" -> 6 [] c = "7" -> 7
      [] c = "8" -> 8 [] c = "9" -> 9

\* int(digits), most significant digit first
RECURSIVE IntOf(_)
IntOf(ds) ==
    IF ds = <<>> THEN 0
    ELSE 10 * IntOf(SubSeq(ds, 1, Len(ds) - 1)) + DigitValue(ds[Len(ds)])

\* all(c in chars for c in s[from:])
AllIn(s, from, chars) == \A i \in from..(Len(s) - 1) : At(s, i) \in chars

Pbkdf2Sha256Prefix == <<"$", "p", "b", "k", "d", "f", "2", "-", "s", "h", "a", "2", "5", "6", "$">>
Pbkdf2Sha512Prefix == <<"$", "p", "b", "k", "d", "f", "2", "-", "s", "h", "a", "5", "1", "2", "$">>
Argon2idPrefix == <<"$", "a", "r", "g", "o", "n", "2", "i", "d", "$">>

\* the conditions detect_algorithm tests, in the order it tests them
CondEmpty(h) == h = <<>>

CondPbkdf2Sha256(h) == StartsWith(h, Pbkdf2Sha256Prefix)

CondPbkdf2Sha512(h) == StartsWith(h, Pbkdf2Sha512Prefix)

CondBcrypt(h) ==
    /\ Len(h) >= 4 /\ At(h, 0) = "$" /\ At(h, 1) = "2"
    /\ At(h, 2) \in {"a", "b", "y"} /\ At(h, 3) = "$"

CondArgon2id(h) == StartsWith(h, Argon2idPrefix)

\* a plausible slip: the hex check of the seeded form is left out
CondMd5SeededAnyBody(h) == StartsWith(h, <<"$">>) /\ Len(h) = 41

CondMd5Seeded(h) ==
    /\ StartsWith(h, <<"$">>) /\ Len(h) = 41
    /\ AllIn(h, 1, HexChars)

CondMd5Plain(h) == Len(h) = 32 /\ AllIn(h, 0, HexChars)

\* a plausible slip: the legacy forms are tested before the prefixes, and
\* the seeded form by its length alone
detect_algorithm_legacy_first(h) ==
    IF CondEmpty(h) THEN "empty"
    ELSE IF StartsWith(h, <<"$">>) /\ Len(h) = 41 THEN "md5-seeded"
    ELSE IF CondMd5Plain(h) THEN "md5-plain"
    ELSE IF CondPbkdf2Sha256(h) THEN "pbkdf2-sha256"
    ELSE IF CondPbkdf2Sha512(h) THEN "pbkdf2-sha512"
    ELSE IF CondBcrypt(h) THEN "bcrypt"
    ELSE IF CondArgon2id(h) THEN "argon2id"
    ELSE "unknown"

detect_algorithm(h) ==
    IF CondEmpty(h) THEN "empty"
    ELSE IF CondPbkdf2Sha256(h) THEN "pbkdf2-sha256"
    ELSE IF CondPbkdf2Sha512(h) THEN "pbkdf2-sha512"
    ELSE IF CondBcrypt(h) THEN "bcrypt"
    ELSE IF CondArgon2id(h) THEN "argon2id"
    ELSE IF CondMd5Seeded(h) THEN "md5-seeded"
    ELSE IF CondMd5Plain(h) THEN "md5-plain"
    ELSE "unknown"

\* index just past the greedy run \d* that starts at from
RECURSIVE DigitRunEnd(_, _)
DigitRunEnd(s, from) ==
    IF from >= Len(s) \/ At(s, from) \notin DigitChars THEN from
    ELSE DigitRunEnd(s, from + 1)

\* Optional[int]: <<>> is None, <<n>> is n

\* \$i=(\d+)\$  tried at index i: the digit run is forced, it must be
\* non-empty and end at a dollar sign
IterationsMatchAt(s, i) ==
    IF ~(i + 2 < Len(s) /\ At(s, i) = "$" /\ At(s, i + 1) = "i"
            /\ At(s, i + 2) = "=")
    THEN <<>>
    ELSE LET e == DigitRunEnd(s, i + 3) IN
         IF e > i + 3 /\ e < Len(s) /\ At(s, e) = "$"
         THEN << IntOf(Slice(s, i + 3, e)) >>
         ELSE <<>>

\* re.search: the leftmost index where the pattern matches
RECURSIVE IterationsSearch(_, _)
IterationsSearch(s, from) ==
    IF from >= Len(s) THEN <<>>
    ELSE IF IterationsMatchAt(s, from) # <<>> THEN IterationsMatchAt(s, from)
    ELSE IterationsSearch(s, from + 1)

parse_pbkdf2_iterations(h) == IterationsSearch(h, 0)

\* a plausible slip: the dollar sign closing the cost is not asked for
parse_bcrypt_cost_unclosed(h) ==
    IF ~CondBcrypt(h) THEN <<>>
    ELSE LET e == DigitRunEnd(h, 4) IN
         IF e > 4 THEN << IntOf(Slice(h, 4, e)) >> ELSE <<>>

\* re.match(r'\$2[aby]\$(\d+)\$', hash_str)
parse_bcrypt_cost(h) ==
    IF ~CondBcrypt(h) THEN <<>>
    ELSE LET e == DigitRunEnd(h, 4) IN
         IF e > 4 /\ e < Len(h) /\ At(h, e) = "$"
         THEN << IntOf(Slice(h, 4, e)) >>
         ELSE <<>>

\* a plausible slip: "is not None" in place of truth
IsSet(v) == v # <<>>

\* "if iters:" / "if cost:"  -  None and 0 are both false
IntTruthy(v) == v # <<>> /\ v[1] # 0

\* iterations_stats[algo].append(n) on a defaultdict(list)
AppendTo(d, k, n) ==
    [a \in DOMAIN d \cup {k} |->
        IF a = k THEN (IF k \in DOMAIN d THEN Append(d[k], n) ELSE <<n>>)
        ELSE d[a]]

\* algo.startswith('pbkdf2'), algo being one of detect_algorithm's tags
IsPbkdf2(a) == a \in {"pbkdf2-sha256", "pbkdf2-sha512"}

-----------------------------------------------------------------------------
(* The password hashes the classifier is run on: a prefix, a middle part   *)
(* and a filling that brings the string to a chosen length.                *)

MaxHashLen == 42

HashPrefixes ==
    { <<>>, <<"$">>,
      Pbkdf2Sha256Prefix, Pbkdf2Sha512Prefix,
      <<"$", "p", "b", "k", "d", "f", "2", "-", "s", "h", "a", "1", "$">>,
      <<"$", "2", "a", "$">>, <<"$", "2", "b", "$">>, <<"$", "2", "y", "$">>, <<"$", "2", "c", "$">>, <<"$", "2", "a">>,
      Argon2idPrefix }

HashMiddles ==
    { <<>>, <<"1", "2", "$">>, <<"7", "$">>, <<"0", "0", "$">>, <<"1", "2", "3", "$">>, <<"1", "2">>, <<"$">>,
      <<"i", "=", "2", "9", "0", "0", "0", "$">>, <<"i", "=", "0", "$">>, <<"i", "=", "1", "2">>, <<"x", "$", "i", "=", "5", "$">>, <<"i", "=", "1", "$", "i", "=", "2", "$">>, <<"i", "=", "$">> }

\* a hex digit of either case and a letter that is none; digits come with
\* the middles, which keeps every digit run short enough for IntOf
FillChars == {"e", "F", "g"}

\* the character a hash ends in, when filled: "" keeps the fill character
LastChars == {"", "g", "$"}

HashLengths == {0} \cup (30..MaxHashLen)

Filled(head, c, last, n) ==
    IF Len(head) >= n THEN head
    ELSE head \o [i \in 1..(n - Len(head)) |->
                     IF i = n - Len(head) /\ last # "" THEN last ELSE c]

ExtractIdle ==
    /\ content = <<>> /\ entries = <<>> /\ layout = "none"
    /\ pc = "idle"
    /\ ns_start = -1 /\ brace_start = -1
    /\ depth = 0 /\ pos = 0
    /\ ns_content = <<>> /\ mpos = 0
    /\ account_name = <<>> /\ properties_str = <<>>
    /\ props = EmptyDict
    /\ accounts = EmptyDict

InitClassify ==
    /\ \E p \in HashPrefixes, m \in HashMiddles, c \in FillChars,
          l \in LastChars, n \in HashLengths :
            hash_str = Filled(p \o m, c, l, n)
    /\ hpc = "detect"
    /\ algo = "" /\ iters = <<>> /\ cost = <<>>
    /\ iterations_stats = EmptyDict /\ bcrypt_costs = <<>>
    /\ ExtractIdle

-----------------------------------------------------------------------------
(* generate_report: the body of the loop over the accounts, for one passwd *)

\* algo = detect_algorithm(passwd)
Detect ==
    /\ hpc = "detect"
    /\ algo' = detect_algorithm(hash_str)
    /\ hpc' = "stats"
    /\ UNCHANGED <<hash_str, iters, cost, iterations_stats, bcrypt_costs>>
    /\ UNCHANGED extractVars

\* if algo.startswith('pbkdf2'): iters = ...; if iters: ...append(iters)
CollectIterations ==
    /\ hpc = "stats"
    /\ IsPbkdf2(algo)
    /\ iters' = parse_pbkdf2_iterations(hash_str)
    /\ iterations_stats' = IF IntTruthy(iters')
                           THEN AppendTo(iterations_stats, algo, iters'[1])
                           ELSE iterations_stats
    /\ hpc' = "done"
    /\ UNCHANGED <<hash_str, algo, cost, bcrypt_costs>>
    /\ UNCHANGED extractVars

\* elif algo == 'bcrypt': cost = ...; if cost: bcrypt_costs.append(cost)
CollectCost ==
    /\ hpc = "stats"
    /\ ~IsPbkdf2(algo)
    /\ algo = "bcrypt"
    /\ cost' = parse_bcrypt_cost(hash_str)
    /\ bcrypt_costs' = IF IntTruthy(cost')
                       THEN Append(bcrypt_costs, cost'[1])
                       ELSE bcrypt_costs
    /\ hpc' = "done"
    /\ UNCHANGED <<hash_str, algo, iters, iterations_stats>>
    /\ UNCHANGED extractVars

\* any other scheme carries no work factor
CollectNothing ==
    /\ hpc = "stats"
    /\ ~IsPbkdf2(algo)
    /\ algo # "bcrypt"
    /\ hpc' = "done"
    /\ UNCHANGED <<hash_str, algo, iters, cost, iterations_stats,
                   bcrypt_costs>>
    /\ UNCHANGED extractVars

NextClassify ==
    \/ Detect
    \/ CollectIterations
    \/ CollectCost
    \/ CollectNothing

SpecClassify == InitClassify /\ [][NextClassify]_vars

-----------------------------------------------------------------------------
(* Properties of the extractor *)

Returned == pc = "done"

\* the account taken up last went through the property loop
LastAccountParsed ==
    /\ pc \in {"match", "done"}
    /\ account_name # <<>>
    /\ ~IsExcluded(account_name)

FormAt(i) == EntryForms[entries[i]]

\* an entry of the flat shape  "name" { pairs };  that names an account
FlatAccount(f) == ~IsExcluded(f.name) /\ HasPair(f) /\ ~HasSubRecord(f)

\* braces opened minus braces closed in s[a:b]
Balance(s, a, b) ==
    Cardinality({j \in a..(b - 1) : At(s, j) = "{"})
      - Cardinality({j \in a..(b - 1) : At(s, j) = "}"})

\* index of the closing brace that matches the opening one at b, -1 if none
MatchingBrace(s, b) ==
    LET closes == {j \in (b + 1)..(Len(s) - 1) : Balance(s, b + 1, j + 1) = -1}
    IN  IF closes = {} THEN -1
        ELSE CHOOSE j \in closes : \A h \in closes : j <= h

\* C1, as stated: when a property block holds the same key more than once,
\* the mapping stored for the account holds the value of the FIRST
\* occurrence of the key.
C1_FirstOccurrenceWins ==
    LastAccountParsed =>
        LET ms == PropMatches(properties_str, 0) IN
        \A i \in DOMAIN ms :
            (\A j \in 1..(i - 1) : ms[j].key # ms[i].key) =>
                /\ account_name \in DOMAIN accounts
                /\ accounts[account_name][ms[i].key] = ms[i].value

\* C1, amended: when a property block holds the same key more than once,
\* the mapping stored for the account holds the value of the LAST
\* occurrence of the key; its keys are exactly the keys matched.
C1_LastOccurrenceWins ==
    LastAccountParsed =>
        LET ms == PropMatches(properties_str, 0) IN
        /\ DOMAIN props = {ms[i].key : i \in DOMAIN ms}
        /\ \A i \in DOMAIN ms :
            (\A j \in (i + 1)..Len(ms) : ms[j].key # ms[i].key) =>
                /\ account_name \in DOMAIN accounts
                /\ accounts[account_name][ms[i].key] = ms[i].value

\* the block  "k" "v";"k" "w";  has been parsed and its account stored
C1_Witness ==
    /\ LastAccountParsed
    /\ properties_str = ScalarText(<<"k">>, <<"v">>) \o ScalarText(<<"k">>, <<"w">>)
    /\ account_name \in DOMAIN accounts
    /\ accounts[account_name][<<"k">>] = <<"w">>

\* C2, as stated: for a section with balanced braces the result contains
\* every top-level entry whose name is not excluded and whose block holds at
\* least one pair, entries with a nested sub-record before or between their
\* properties included.
C2_EveryEntryWithPairsReturned ==
    (Returned /\ layout \in Terminated) =>
        \A i \in DOMAIN entries :
            (~IsExcluded(FormAt(i).name) /\ HasPair(FormAt(i))) =>
                FormAt(i).name \in DOMAIN accounts

\* C3: the scan stops exactly at the closing brace that matches the
\* section's opening brace, the section body is the text strictly between
\* the two, and after an account whose block nests braces every flat sibling
\* account is still returned.
C3_ScanStopsAtMatchingBrace ==
    /\ (pc = "scan" /\ brace_start # -1) =>
            /\ depth = 1 + Balance(content, brace_start + 1, pos)
            /\ \A p \in (brace_start + 1)..(pos - 1) :
                   1 + Balance(content, brace_start + 1, p) > 0
    /\ (pc \in {"match", "done"} /\ brace_start # -1
            /\ MatchingBrace(content, brace_start) # -1) =>
            /\ pos - 1 = MatchingBrace(content, brace_start)
            /\ ns_content = Slice(content, brace_start + 1,
                                  MatchingBrace(content, brace_start))
    /\ (pc \in {"match", "done"} /\ layout \in Terminated) =>
            ns_content = BodyText(entries)
    /\ (Returned /\ layout \in Terminated) =>
            \A i \in DOMAIN entries :
                (/\ FlatAccount(FormAt(i))
                 /\ \E j \in 1..(i - 1) : HasSubRecord(FormAt(j))) =>
                    /\ FormAt(i).name \in DOMAIN accounts
                    /\ \A h \in (i + 1)..Len(entries) :
                           FormAt(h).name # FormAt(i).name =>
                               accounts[FormAt(i).name]
                                   = ParseProps(ItemsText(FormAt(i).items))

\* a section followed by another one; its first account nests a sub-record
\* and the flat sibling after it has been returned
C3_Witness ==
    /\ Returned
    /\ layout = "trailing"
    /\ Len(entries) = 2
    /\ HasSubRecord(FormAt(1))
    /\ FlatAccount(FormAt(2))
    /\ FormAt(2).name \in DOMAIN accounts
    /\ pos < Len(content)

\* C4, as stated: when the scan reaches the end of the text with depth > 0
\* the section body is everything after the opening brace, the last
\* character included, and a flat account whose  };  ends the input is
\* returned.
C4_OpenSectionKeepsLastCharacter ==
    /\ (pc \in {"match", "done"} /\ brace_start # -1 /\ depth > 0) =>
            ns_content = Slice(content, brace_start + 1, Len(content))
    /\ (Returned /\ layout = "open" /\ entries # <<>>
            /\ FlatAccount(FormAt(Len(entries)))) =>
            FormAt(Len(entries)).name \in DOMAIN accounts

\* C7: every entry of the result has a name outside the exclusion set and
\* at least one property.
C7_ResultInvariant ==
    \A n \in DOMAIN accounts :
        /\ n \notin NonAccountNames
        /\ n \notin { <<"v","e","r","s","i","o","n","_","c","o","n","t","r","o","l">>,
                      <<"n","o","t","e","_","t","y","p","e","s">>,
                      <<"d","n","r">>,
                      <<"c","h","a","n","n","e","l","s">>,
                      <<"b","o","t","s">> }
        /\ DOMAIN accounts[n] # {}

\* a structural entry was skipped and an entry without properties dropped,
\* and an account was returned
C7_Witness ==
    /\ Returned
    /\ DOMAIN accounts # {}
    /\ \E i \in DOMAIN entries :
           IsExcluded(FormAt(i).name) \/ ~HasPair(FormAt(i))
    /\ layout \in Terminated

\* a bound on the steps parse_saxdb_nickserv still has to take: the stages
\* left, and within a loop the text its cursor has not passed yet
StepsLeft ==
    LET stage == CASE pc = "start" -> 4
                   [] pc = "brace" -> 3
                   [] pc = "scan"  -> 2
                   [] pc = "match" -> 1
                   [] OTHER        -> 0
        ahead == CASE pc = "scan"  -> Len(content) - pos
                   [] pc = "match" -> Len(ns_content) - mpos
                   [] OTHER        -> 0
    IN  stage * (Len(content) + 1) + ahead

\* The enabling condition of Next written out, action by action (what an
\* action asks of the next state is an assignment, which can always be met).
CanStep ==
    \/ pc = "start" /\ Find(content, SectionName, 0) = -1
    \/ pc = "start" /\ Find(content, SectionName, 0) # -1
    \/ pc = "brace" /\ BraceSearch(content, ns_start) = -1
    \/ pc = "brace" /\ BraceSearch(content, ns_start) # -1
    \/ pc = "scan" /\ ScanContinues(content, pos, depth)
    \/ pc = "scan" /\ ~ScanContinues(content, pos, depth)
    \/ pc = "match" /\ AccountSearch(ns_content, mpos) = <<>>
    \/ /\ pc = "match"
       /\ AccountSearch(ns_content, mpos) # <<>>
       /\ LET m == AccountSearch(ns_content, mpos)[1] IN
            \/ IsExcluded(m.name)
            \/ ~IsExcluded(m.name) /\ Truthy(ParseProps(m.block))
            \/ ~IsExcluded(m.name) /\ ~Truthy(ParseProps(m.block))

\* C8: extraction terminates and returns a mapping (until it has returned
\* it can always take a step, and every step lowers the natural number
\* StepsLeft), and it returns the empty mapping when the quoted section name
\* is absent or no opening brace follows its first occurrence.
C8_TerminatesWithMapping ==
    /\ [](Returned \/ CanStep)
    /\ [](StepsLeft \in Nat)
    /\ [][StepsLeft' < StepsLeft]_vars
    /\ [](Returned =>
            LET at == Find(content, SectionName, 0) IN
            (at = -1 \/ \A j \in at..(Len(content) - 1) : At(content, j) # "{")
                => DOMAIN accounts = {})

\* the section name is there, no brace follows it, the empty mapping is back
C8_Witness ==
    /\ Returned
    /\ ns_start > 0
    /\ brace_start = -1
    /\ DOMAIN accounts = {}

-----------------------------------------------------------------------------
(* Properties of the classifier *)

Classified == hpc \in {"stats", "done"}

StatsCollected == hpc = "done"

\* the value of a decimal numeral, most significant digit first
DecimalValue(ds) ==
    LET v[i \in 0..Len(ds)] ==
            IF i = 0 THEN 0 ELSE 10 * v[i - 1] + DigitValue(ds[i])
    IN  v[Len(ds)]

\* h (1-based) holds at position i a run of exactly n digits closed by "$"
DigitSegment(h, i, n) ==
    /\ n >= 1
    /\ i + n <= Len(h)
    /\ \A j \in i..(i + n - 1) : h[j] \in DigitChars
    /\ h[i + n] = "$"

\* h holds at position i the text  $i=  followed by such a segment
IterationSegment(h, i, n) ==
    /\ i + 3 <= Len(h)
    /\ h[i] = "$" /\ h[i + 1] = "i" /\ h[i + 2] = "="
    /\ DigitSegment(h, i + 3, n)

\* C5: the classifier returns the tag of the first matching rule of the
\* ordered list: empty for the empty string; the pbkdf2-sha256,
\* pbkdf2-sha512 and argon2id tags for their prefixes; bcrypt for "$2" + one
\* of a, b, y + "$"; md5-seeded exactly for a "$" followed by 40 hex digits
\* of either case; md5-plain exactly for 32 hex digits; unknown exactly when
\* none of these holds.
C5_ClassifierFollowsRuleList ==
    Classified =>
        LET h == hash_str
            hex == {"0", "1", "2", "3", "4", "5", "6", "7", "8", "9",
                    "a", "b", "c", "d", "e", "f",
                    "A", "B", "C", "D", "E", "F"}
            has(p) == Len(h) >= Len(p) /\ \A i \in DOMAIN p : h[i] = p[i]
            empty == Len(h) = 0
            p256 == has(<<"$", "p", "b", "k", "d", "f", "2", "-", "s", "h", "a", "2", "5", "6", "$">>)
            p512 == has(<<"$", "p", "b", "k", "d", "f", "2", "-", "s", "h", "a", "5", "1", "2", "$">>)
            bcrypt == \E v \in {"a", "b", "y"} : has(<<"$", "2", v, "$">>)
            argon == has(<<"$", "a", "r", "g", "o", "n", "2", "i", "d", "$">>)
            seeded == Len(h) = 41 /\ h[1] = "$" /\ \A i \in 2..41 : h[i] \in hex
            plain == Len(h) = 32 /\ \A i \in 1..32 : h[i] \in hex
            rules == << <<empty, "empty">>, <<p256, "pbkdf2-sha256">>,
                        <<p512, "pbkdf2-sha512">>, <<bcrypt, "bcrypt">>,
                        <<argon, "argon2id">>, <<seeded, "md5-seeded">>,
                        <<plain, "md5-plain">>, <<TRUE, "unknown">> >>
        IN  /\ \E i \in DOMAIN rules :
                /\ rules[i][1]
                /\ \A j \in 1..(i - 1) : ~rules[j][1]
                /\ algo = rules[i][2]
            /\ empty => algo = "empty"
            /\ p256 => algo = "pbkdf2-sha256"
            /\ p512 => algo = "pbkdf2-sha512"
            /\ bcrypt => algo = "bcrypt"
            /\ argon => algo = "argon2id"
            /\ algo = "md5-seeded" <=> seeded
            /\ algo = "md5-plain" <=> plain
            /\ algo = "unknown" <=>
                   ~(empty \/ p256 \/ p512 \/ bcrypt \/ argon \/ seeded \/ plain)

\* a "$" followed by 40 hex digits, upper case among them, came out as
\* md5-seeded
C5_Witness ==
    /\ Classified
    /\ algo = "md5-seeded"
    /\ \E i \in DOMAIN hash_str : hash_str[i] = "F"
    /\ \E i \in DOMAIN hash_str : hash_str[i] \in DigitChars

\* the tags whose condition in detect_algorithm holds of h
TagsHolding(h) ==
    {t \in {"empty", "pbkdf2-sha256", "pbkdf2-sha512", "bcrypt", "argon2id",
            "md5-seeded", "md5-plain"} :
        CASE t = "empty"         -> CondEmpty(h)
          [] t = "pbkdf2-sha256" -> CondPbkdf2Sha256(h)
          [] t = "pbkdf2-sha512" -> CondPbkdf2Sha512(h)
          [] t = "bcrypt"        -> CondBcrypt(h)
          [] t = "argon2id"      -> CondArgon2id(h)
          [] t = "md5-seeded"    -> CondMd5Seeded(h)
          [] t = "md5-plain"     -> CondMd5Plain(h)}

\* C6: at most one of the classifier's scheme conditions holds of any
\* string, so the tag returned is the one of the only condition that holds
\* whatever the order of the checks, and a string with a modern-scheme
\* prefix is never classified md5-seeded or md5-plain.
C6_ChecksMutuallyExclusive ==
    /\ Cardinality(TagsHolding(hash_str)) <= 1
    /\ Classified =>
        /\ \A t \in TagsHolding(hash_str) : algo = t
        /\ TagsHolding(hash_str) = {} => algo = "unknown"
        /\ (\/ StartsWith(hash_str, <<"$", "p", "b", "k", "d", "f", "2", "-", "s", "h", "a", "2", "5", "6", "$">>)
            \/ StartsWith(hash_str, <<"$", "p", "b", "k", "d", "f", "2", "-", "s", "h", "a", "5", "1", "2", "$">>)
            \/ StartsWith(hash_str, <<"$", "2", "a", "$">>)
            \/ StartsWith(hash_str, <<"$", "2", "b", "$">>)
            \/ StartsWith(hash_str, <<"$", "2", "y", "$">>)
            \/ StartsWith(hash_str, <<"$", "a", "r", "g", "o", "n", "2", "i", "d", "$">>))
                => algo \notin {"md5-seeded", "md5-plain"}

\* a bcrypt-prefixed string of the seeded form's length came out as bcrypt
C6_Witness ==
    /\ Classified
    /\ StartsWith(hash_str, <<"$", "2", "a", "$">>)
    /\ Len(hash_str) = 41
    /\ algo = "bcrypt"

\* C9, as stated: for a string classified bcrypt the cost is the value of a
\* segment of exactly 1 or 2 digits that follows the prefix and is closed by
\* "$"; without such a segment (3 or more digits included) it is unset.
C9_CostIsOneOrTwoDigits ==
    (StatsCollected /\ algo = "bcrypt") =>
        LET lens == {n \in 1..2 : DigitSegment(hash_str, 5, n)} IN
        /\ \A n \in lens : cost = << DecimalValue(SubSeq(hash_str, 5, 4 + n)) >>
        /\ lens = {} => cost = <<>>

\* C9, amended: for a string classified bcrypt, parse_bcrypt_cost returns
\* the value of the segment of one or more digits (however many) that
\* follows the prefix and is closed by "$"; without such a segment (no
\* digit, or no closing "$") it returns None; the scheme is bcrypt either
\* way.
C9_CostIsDigitRun ==
    (StatsCollected /\ CondBcrypt(hash_str)) =>
        LET lens == {n \in 1..Len(hash_str) : DigitSegment(hash_str, 5, n)} IN
        /\ algo = "bcrypt"
        /\ \A n \in lens : cost = << DecimalValue(SubSeq(hash_str, 5, 4 + n)) >>
        /\ lens = {} => cost = <<>>

\* the cost 123 was taken from a three-digit segment
C9_Witness ==
    /\ StatsCollected
    /\ algo = "bcrypt"
    /\ StartsWith(hash_str, <<"$", "2", "b", "$", "1", "2", "3", "$">>)
    /\ cost = <<123>>

\* C10: a work factor that gets set is a positive integer: for a pbkdf2
\* scheme the digits of the first  $i=<digits>$  segment, for bcrypt the
\* cost, and a segment whose value is 0 leaves the work factor unset.
C10_WorkFactorPositive ==
    /\ \A a \in DOMAIN iterations_stats :
           \A i \in DOMAIN iterations_stats[a] :
               iterations_stats[a][i] \in Nat /\ iterations_stats[a][i] >= 1
    /\ \A i \in DOMAIN bcrypt_costs :
           bcrypt_costs[i] \in Nat /\ bcrypt_costs[i] >= 1
    /\ (StatsCollected /\ IsPbkdf2(algo)) =>
           LET h == hash_str
               segs == {x \in (1..Len(h)) \X (1..Len(h)) :
                            IterationSegment(h, x[1], x[2])}
               first == CHOOSE x \in segs : \A y \in segs : x[1] <= y[1]
               value == DecimalValue(SubSeq(h, first[1] + 3,
                                            first[1] + 2 + first[2]))
           IN  /\ bcrypt_costs = <<>>
               /\ IF segs # {} /\ value >= 1
                  THEN iterations_stats = AppendTo(EmptyDict, algo, value)
                  ELSE DOMAIN iterations_stats = {}
    /\ (StatsCollected /\ algo = "bcrypt") =>
           /\ DOMAIN iterations_stats = {}
           /\ IF cost # <<>> /\ cost[1] >= 1
              THEN bcrypt_costs = << cost[1] >>
              ELSE bcrypt_costs = <<>>
    /\ (StatsCollected /\ ~IsPbkdf2(algo) /\ algo # "bcrypt") =>
           DOMAIN iterations_stats = {} /\ bcrypt_costs = <<>>

\* $pbkdf2-sha256$i=0$...: the segment reads 0 and no work factor is set
C10_Witness ==
    /\ StatsCollected
    /\ algo = "pbkdf2-sha256"
    /\ StartsWith(hash_str, <<"$", "p", "b", "k", "d", "f", "2", "-", "s", "h", "a", "2", "5", "6", "$", "i", "=", "0", "$">>)
    /\ iters = <<0>>
    /\ DOMAIN iterations_stats = {}

====
